---- MODULE Spec2Model ----
(***************************************************************************)
(* Business-card hero (src/src/app/page.tsx): the LoadingBridge, the intro *)
(* sequencing of BusinessCardHero, the Card frame loop, the flip / rotate  *)
(* toggles, the share action and the device-orientation reader.            *)
(*                                                                         *)
(* Units.  Times are milliseconds (the source's clock is in seconds:       *)
(* ANIMATION_DURATION = 1.0 s = 1000 ms; the intro delay is 220 ms).       *)
(* introProgress is a fixed-point number with ONE = 1.0.  Angles are       *)
(* multiples of pi/490 rad, so Math.PI is 490 and pi/14 is 35: every       *)
(* division the code performs on the modelled inputs is then exact.        *)
(*                                                                         *)
(* Four specifications share the variables.  The handlers of the four      *)
(* groups write disjoint variables and are coupled only through `loaded`,  *)
(* so each specification contains LoaderUpdate plus one group:             *)
(*   Spec        loader, intro timer, frame loop                           *)
(*   SpecCard    loader, card tap, Flip button                             *)
(*   SpecShare   loader, Share button                                      *)
(*   SpecMotion  loader, mount / unmount, Enable-motion button, permission *)
(*               results, orientation events                               *)
(***************************************************************************)
EXTENDS Integers, Sequences, FiniteSets, TLC

VARIABLES
    \* --- platform (fixed for a behaviour) ---
    isIOSPermissionAPI, \* DeviceOrientationEvent.requestPermission is a function
    isSupported,        \* DeviceOrientationEvent in window && isSecureContext
    \* --- useProgress store (the rendering library's loader) ---
    loaderProgress, loaderActive,
    \* --- LoadingBridge ---
    doneRef,
    \* --- BusinessCardHero state ---
    mounted, progress, loaded, flipped, rotated, introReady,
    introTimer,         \* <<>> or <<due>>: the pending 220 ms timeout
    \* --- Card frame loop ---
    clock,              \* state.clock.elapsedTime at the latest frame (ms)
    animationStartTimeRef, \* <<>> (null) or <<t>>
    introProgress,      \* value computed by the latest frame, 0..ONE
    \* --- useDeviceOrientation ---
    orientation,        \* [beta, gamma], each <<>> (null) or <<degrees>>
    permissionState,
    storage,            \* localStorage["device-orientation-permission"]
    effectListener,     \* listener added by the mount effect (removed on cleanup)
    requestListeners,   \* listeners added by requestPermission of this instance
    leakedListeners,    \* listeners on window whose component is unmounted
    pending,            \* requestPermission promises in flight, this instance
    orphaned,           \* promises in flight whose component is unmounted
    \* --- share action: what the latest handleShareVCard invocation did ---
    shareCaps, shareAttempts, shareOutcome, shareLogged, shareThrown,
    \* --- counters that bound the model ---
    mounts, requests,
    \* --- history (observation only, never read by the handlers) ---
    hist

vars == <<isIOSPermissionAPI, isSupported, loaderProgress, loaderActive, doneRef,
          mounted, progress, loaded, flipped, rotated, introReady, introTimer,
          clock, animationStartTimeRef, introProgress,
          orientation, permissionState, storage, effectListener, requestListeners,
          leakedListeners, pending, orphaned,
          shareCaps, shareAttempts, shareOutcome, shareLogged, shareThrown,
          mounts, requests, hist>>

platformVars == <<isIOSPermissionAPI, isSupported>>
loaderVars == <<loaderProgress, loaderActive>>
frameVars == <<clock, animationStartTimeRef, introProgress>>
motionVars == <<orientation, permissionState, storage, effectListener,
                requestListeners, leakedListeners, pending, orphaned>>
shareVars == <<shareCaps, shareAttempts, shareOutcome, shareLogged, shareThrown>>

----------------------------------------------------------------------------
\* Bounds of the model.
MaxTime == 1500
MaxMounts == 2
MaxRequests == 2

\* Inputs.
ProgressValues == {0, 50, 100}
FrameSteps == {100, 300}
Readings == {<<>>, <<-90>>, <<-35>>, <<0>>, <<20>>, <<35>>, <<36>>}
PermissionResults == {"granted", "denied", "throw"}
ShareOutcomes == {"resolved", "AbortError", "Error", "nonError"}

\* Program constants.
COMPLETE == 100
ANIMATION_DURATION == 1000
INTRO_DELAY == 220
ONE == 1000
PI == 490
TILT_LIMIT == 35
PI_DIVISOR == 14

Min(a, b) == IF a < b THEN a ELSE b
Max(a, b) == IF a > b THEN a ELSE b

----------------------------------------------------------------------------
\* clamp(n, min, max)
clamp(n, lo, hi) == Max(lo, Min(hi, n))

----------------------------------------------------------------------------
\* Faulty variant: the doneRef guard is missing.
CompletesUnguarded(p, a, done) == ~a /\ p >= COMPLETE

\* LoadingBridge effect: the condition under which onLoaded() is called.
Completes(p, a, done) == ~a /\ p >= COMPLETE /\ ~done

\* BusinessCardHero onProgress={(p) => setProgress(p)}.
OnProgress(p) == p

\* Faulty variant: `loaded` follows the loader instead of latching.
LoadedMirrorsLoader(p, a, fires, ld) == ~a /\ p >= COMPLETE

\* BusinessCardHero onLoaded={() => setLoaded(true)}: the value of `loaded`
\* after a LoadingBridge effect run that did (fires) or did not call onLoaded.
LoadedAfter(p, a, fires, ld) == IF fires THEN TRUE ELSE ld

\* Faulty variant: the `if (!loaded) return` guard is missing.
IntroDelayUnguarded(ld, now) == <<now + INTRO_DELAY>>

\* The effect with dependency [loaded]: its cleanup clears the pending
\* timeout, then `if (!loaded) return` or a timeout of 220 ms is started.
IntroDelayEffect(ld, now) == IF ~ld THEN <<>> ELSE <<now + INTRO_DELAY>>

\* introProgress = Math.min(elapsed / ANIMATION_DURATION, 1.0)
IntroProgressAt(elapsed) == Min((elapsed * ONE) \div ANIMATION_DURATION, ONE)

\* flipTarget = flipped ? Math.PI : 0 ; rotateTarget = rotated ? Math.PI : 0
FlipTarget(f) == IF f THEN PI ELSE 0
RotateTarget(r) == IF r THEN PI ELSE 0

\* Faulty variant: the setter sets instead of toggling.
ToggleSetsTrue(v) == TRUE

\* setFlipped((v) => !v), setRotated((v) => !v)
Toggle(v) == ~v

\* Faulty variant: the interactive guard is missing.
TapAlways(interactive) == TRUE

\* Card onPointerDown: `if (!interactive) return;`
TapAllowed(interactive) == interactive

\* interactive={loaded}
Interactive == loaded

\* The last three entries of a trail of targets.
Last3(s) == IF Len(s) <= 3 THEN s ELSE SubSeq(s, Len(s) - 2, Len(s))

----------------------------------------------------------------------------
\* History of a fresh mount.  lastResult / lastInSession describe the latest
\* settled requestPermission (its result; whether its component was still
\* mounted) and outlive the mount; priorSession is that result as found at
\* mount time, "none" when no mounted instance received it.  settledHere,
\* grantedHere, failedHere: a requestPermission of this instance has settled /
\* settled granted / settled denied or rejected; lastReturn, lastAdded: what
\* the latest of them returned and how many listeners it registered.
FreshHist(stored) ==
    [ onLoadedCalls |-> 0, completions |-> 0,
      loadedAt |-> <<>>, readyAt |-> <<>>,
      triggered |-> FALSE, triggerTime |-> 0, prevIntroProgress |-> 0,
      prevProgress |-> 0,
      flipTrail |-> <<FlipTarget(FALSE)>>, rotateTrail |-> <<RotateTarget(FALSE)>>,
      ignoredTaps |-> FALSE,
      storedAtMount |-> stored, priorSession |-> "none", requestCalls |-> 0,
      settledHere |-> FALSE, grantedHere |-> FALSE, failedHere |-> FALSE,
      lastReturn |-> TRUE, lastAdded |-> 0,
      lastResult |-> "none", lastInSession |-> FALSE ]

----------------------------------------------------------------------------
\* Faulty variant: the stored decision is never recognised as a grant.
WasGrantedNever(stored) == FALSE

\* useDeviceOrientation, mount effect.
\* wasGranted = localStorage.getItem("device-orientation-permission") === "granted"
WasGranted(stored) == stored = "granted"

\* permissionState once the mount effect has run.
MountPermissionState(ios, stored) ==
    IF ~ios THEN "not_required"
    ELSE IF WasGranted(stored) THEN "granted"
    ELSE "unknown"

\* Faulty variant: listening starts at mount on every platform.
MountStartsListeningAlways(ios, stored) == TRUE

\* Whether the mount effect called startListening().
MountStartsListening(ios, stored) == ~ios \/ WasGranted(stored)

----------------------------------------------------------------------------
\* The state after construction: first visit (empty storage), the component
\* mounted, its effects run once with the loader store's initial state.
HeroInit(ios, supported) ==
    /\ isIOSPermissionAPI = ios
    /\ isSupported = supported
    /\ loaderProgress = 0 /\ loaderActive = FALSE
    /\ doneRef = FALSE
    /\ mounted = TRUE
    /\ progress = OnProgress(0)
    /\ loaded = FALSE /\ flipped = FALSE /\ rotated = FALSE /\ introReady = FALSE
    /\ introTimer = IntroDelayEffect(FALSE, 0)
    /\ clock = 0
    /\ animationStartTimeRef = <<>>
    /\ introProgress = 0
    /\ orientation = [beta |-> <<>>, gamma |-> <<>>]
    /\ storage = "none"
    /\ permissionState = MountPermissionState(isIOSPermissionAPI, "none")
    /\ effectListener = MountStartsListening(isIOSPermissionAPI, "none")
    /\ requestListeners = 0 /\ leakedListeners = 0
    /\ pending = 0 /\ orphaned = 0
    /\ shareCaps = <<>> /\ shareAttempts = <<>> /\ shareOutcome = "none"
    /\ shareLogged = FALSE /\ shareThrown = FALSE
    /\ mounts = 1 /\ requests = 0
    /\ hist = FreshHist("none")

----------------------------------------------------------------------------
\* The useProgress store changes to (p, a), or BusinessCardHero re-renders
\* (onProgress / onLoaded are new functions on every render): the
\* LoadingBridge effect runs; setLoaded(true) re-runs the [loaded] effect.
LoaderUpdate(p, a) ==
    /\ mounted
    /\ loaderProgress' = p
    /\ loaderActive' = a
    /\ LET fires == Completes(p, a, doneRef)
           ld == LoadedAfter(p, a, fires, loaded)
       IN /\ progress' = OnProgress(p)
          /\ doneRef' = (doneRef \/ fires)
          /\ loaded' = ld
          /\ introTimer' = IF ld # loaded THEN IntroDelayEffect(ld, clock)
                           ELSE introTimer
          /\ hist' = [hist EXCEPT
                 !.onLoadedCalls = IF fires THEN @ + 1 ELSE @,
                 !.completions = IF ~a /\ p >= COMPLETE THEN Min(@ + 1, 2) ELSE @,
                 !.loadedAt = IF ld /\ ~loaded THEN <<clock>> ELSE @,
                 !.prevProgress = progress]
    /\ UNCHANGED <<platformVars, mounted, flipped, rotated, introReady, frameVars,
                   motionVars, shareVars, mounts, requests>>

\* The 220 ms timeout expires: setIntroReady(true).
TimerFire ==
    /\ mounted
    /\ introTimer # <<>>
    /\ clock >= introTimer[1]
    /\ introReady' = TRUE
    /\ introTimer' = <<>>
    /\ hist' = [hist EXCEPT !.readyAt = <<clock>>]
    /\ UNCHANGED <<platformVars, loaderVars, doneRef, mounted, progress, loaded,
                   flipped, rotated, frameVars, motionVars, shareVars,
                   mounts, requests>>

\* One rendered frame, dt after the previous one: the Card useFrame callback
\* (the part that computes introProgress and keeps animationStartTimeRef).
Frame(dt) ==
    /\ mounted
    /\ clock + dt <= MaxTime
    /\ LET now == clock + dt
           isContentLoaded == progress >= COMPLETE
           start == IF animationStartTimeRef = <<>> THEN now
                    ELSE animationStartTimeRef[1]
           ip == IF isContentLoaded /\ ~introReady THEN IntroProgressAt(now - start)
                 ELSE IF introReady THEN ONE
                 ELSE 0
       IN /\ clock' = now
          /\ animationStartTimeRef' =
                 IF isContentLoaded /\ ~introReady THEN <<start>>
                 ELSE IF introReady THEN <<>>
                 ELSE animationStartTimeRef
          /\ introProgress' = ip
          /\ hist' = [hist EXCEPT
                 !.triggered = @ \/ isContentLoaded,
                 !.triggerTime = IF ~hist.triggered /\ isContentLoaded THEN now ELSE @,
                 !.prevIntroProgress = IF hist.triggered THEN introProgress ELSE ip]
    /\ UNCHANGED <<platformVars, loaderVars, doneRef, mounted, progress, loaded,
                   flipped, rotated, introReady, introTimer, motionVars, shareVars,
                   mounts, requests>>

\* Pointer-down on the card.
TapCard ==
    /\ mounted
    /\ IF TapAllowed(Interactive)
       THEN /\ flipped' = Toggle(flipped)
            /\ hist' = [hist EXCEPT
                   !.flipTrail = Last3(Append(@, FlipTarget(Toggle(flipped))))]
       ELSE /\ flipped' = flipped
            /\ hist' = [hist EXCEPT !.ignoredTaps = TRUE]
    /\ UNCHANGED <<platformVars, loaderVars, doneRef, mounted, progress, loaded,
                   rotated, introReady, introTimer, frameVars, motionVars,
                   shareVars, mounts, requests>>

\* Click on the Flip button (disabled while !loaded).
PressFlip ==
    /\ mounted
    /\ loaded
    /\ rotated' = Toggle(rotated)
    /\ hist' = [hist EXCEPT
           !.rotateTrail = Last3(Append(@, RotateTarget(Toggle(rotated))))]
    /\ UNCHANGED <<platformVars, loaderVars, doneRef, mounted, progress, loaded,
                   flipped, introReady, introTimer, frameVars, motionVars,
                   shareVars, mounts, requests>>

----------------------------------------------------------------------------
\* Loading and intro sequencing on a desktop browser (no consent API).
Init == HeroInit(FALSE, TRUE)

Next ==
    \/ \E p \in ProgressValues, a \in BOOLEAN : LoaderUpdate(p, a)
    \/ TimerFire
    \/ \E dt \in FrameSteps : Frame(dt)

Spec == Init /\ [][Next]_vars

\* The card's toggles.
NextCard ==
    \/ \E p \in ProgressValues, a \in BOOLEAN : LoaderUpdate(p, a)
    \/ TapCard
    \/ PressFlip

SpecCard == Init /\ [][NextCard]_vars

----------------------------------------------------------------------------
\* Faulty variant: text share is preferred whenever navigator.share exists.
ShareAttemptsTextFirst(share, canShare, canShareFiles) ==
    IF share THEN <<"share_text">>
    ELSE IF canShare /\ canShareFiles THEN <<"share_files">>
    ELSE <<"download:contact.vcf">>

\* handleShareVCard: the delivery methods one invocation attempts, in order,
\* given navigator.share, navigator.canShare and canShare({files: [file]}).
\* A rejected share is caught; no other method is tried after it.
ShareAttempts(share, canShare, canShareFiles) ==
    IF share /\ canShare /\ canShareFiles THEN <<"share_files">>
    ELSE IF share THEN <<"share_text">>
    ELSE <<"download:contact.vcf">>

\* catch (error): console.error unless the error is no Error instance or is
\* named AbortError.
LogsError(outcome) == outcome = "Error"

\* Click on the Share button (disabled while !loaded).  The outcome is that of
\* the awaited navigator.share promise, or of the synchronous download.
HandleShareVCard(share, canShare, canShareFiles, outcome) ==
    /\ mounted
    /\ loaded
    /\ LET attempts == ShareAttempts(share, canShare, canShareFiles)
       IN /\ (attempts = <<"download:contact.vcf">> => outcome \in {"resolved", "Error"})
          /\ shareCaps' = <<share, canShare, canShareFiles>>
          /\ shareAttempts' = attempts
          /\ shareOutcome' = outcome
          /\ shareLogged' = LogsError(outcome)
          /\ shareThrown' = FALSE
    /\ UNCHANGED <<platformVars, loaderVars, doneRef, mounted, progress, loaded,
                   flipped, rotated, introReady, introTimer, frameVars, motionVars,
                   mounts, requests, hist>>

NextShare ==
    \/ \E p \in ProgressValues, a \in BOOLEAN : LoaderUpdate(p, a)
    \/ \E share \in BOOLEAN, canShare \in BOOLEAN, canShareFiles \in BOOLEAN,
          outcome \in ShareOutcomes :
            HandleShareVCard(share, canShare, canShareFiles, outcome)

SpecShare == Init /\ [][NextShare]_vars

----------------------------------------------------------------------------
\* requestPermission: permissionState and the stored value after the awaited
\* platform call ended with `result` ("throw": the call rejected).
PermissionAfter(result) == IF result = "granted" THEN "granted" ELSE "denied"
StoredAfter(result) == IF result = "granted" THEN "granted" ELSE "denied"

\* requestPermission: `return true` after a grant, `return false` otherwise
\* (the catch block returns too: nothing is thrown to the caller).
ReturnAfter(result) == result = "granted"

\* requestPermission: window.addEventListener only in the granted branch.
ListenersAdded(result) == IF result = "granted" THEN 1 ELSE 0

\* deviceorientation listeners of useDeviceOrientation on window.
ListenersOnWindow ==
    (IF effectListener THEN 1 ELSE 0) + requestListeners + leakedListeners

\* Card useFrame: tiltX = deviceTiltX !== 0 ? deviceTiltX : pointerTiltX, where
\* deviceTiltX is deviceTilt.x times non-zero factors, or 0 (same for y).
CardTiltSource(deviceTiltComponent) ==
    IF deviceTiltComponent # 0 THEN "device" ELSE "pointer"

\* beta ?? 0
Nullish(v, dflt) == IF v = <<>> THEN dflt ELSE v[1]

\* Faulty variant: the reading is not clamped.
NormalizeTiltUnclamped(deg) == (deg * PI) \div (TILT_LIMIT * PI_DIVISOR)

\* (clamp(deg, -35, 35) / 35) * Math.PI / 14
NormalizeTilt(deg) ==
    (clamp(deg, -TILT_LIMIT, TILT_LIMIT) * PI) \div (TILT_LIMIT * PI_DIVISOR)

\* The branch of the deviceTilt memo that normalizes the reading is taken.
TiltEnabled == isSupported /\ ~(isIOSPermissionAPI /\ permissionState # "granted")

\* deviceTilt = useMemo(...)
DeviceTilt ==
    IF ~isSupported THEN [x |-> 0, y |-> 0]
    ELSE IF isIOSPermissionAPI /\ permissionState # "granted" THEN [x |-> 0, y |-> 0]
    ELSE [x |-> NormalizeTilt(Nullish(orientation.beta, 0)),
          y |-> NormalizeTilt(Nullish(orientation.gamma, 0))]

\* showMotionButton, and what is rendered.
ShowMotionButton ==
    /\ isSupported /\ isIOSPermissionAPI
    /\ permissionState # "granted" /\ permissionState # "denied"
EnableMotionButtonShown == mounted /\ loaded /\ ShowMotionButton
DeniedNoticeShown ==
    mounted /\ loaded /\ isIOSPermissionAPI /\ permissionState = "denied"

\* The component unmounts: effect cleanups run (the mount effect's listener
\* is removed, the intro timeout is cleared), its state is discarded.
\* Listeners added by requestPermission stay on window, and promises in
\* flight still settle.
Unmount ==
    /\ mounted
    /\ mounted' = FALSE
    /\ effectListener' = FALSE
    /\ introTimer' = <<>>
    /\ leakedListeners' = leakedListeners + requestListeners
    /\ requestListeners' = 0
    /\ orphaned' = orphaned + pending
    /\ pending' = 0
    /\ doneRef' = FALSE
    /\ progress' = 0 /\ loaded' = FALSE /\ flipped' = FALSE /\ rotated' = FALSE
    /\ introReady' = FALSE
    /\ animationStartTimeRef' = <<>> /\ introProgress' = 0
    /\ orientation' = [beta |-> <<>>, gamma |-> <<>>]
    /\ permissionState' = "unknown"
    /\ hist' = [FreshHist(hist.storedAtMount) EXCEPT
           !.lastResult = hist.lastResult,
           !.lastInSession = hist.lastInSession]
    /\ UNCHANGED <<platformVars, loaderVars, clock, storage, shareVars,
                   mounts, requests>>

\* A fresh mount with the same storage: state is initialised, the
\* LoadingBridge effect runs with the loader store as it is, and the
\* useDeviceOrientation mount effect runs.
Mount ==
    /\ ~mounted
    /\ mounts < MaxMounts
    /\ mounted' = TRUE
    /\ mounts' = mounts + 1
    /\ LET fires == Completes(loaderProgress, loaderActive, FALSE)
           ld == LoadedAfter(loaderProgress, loaderActive, fires, FALSE)
       IN /\ progress' = OnProgress(loaderProgress)
          /\ doneRef' = fires
          /\ loaded' = ld
          /\ introTimer' = IntroDelayEffect(ld, clock)
          /\ hist' = [FreshHist(storage) EXCEPT
                 !.lastResult = hist.lastResult,
                 !.lastInSession = hist.lastInSession,
                 !.priorSession =
                     IF hist.lastInSession THEN hist.lastResult ELSE "none",
                 !.onLoadedCalls = IF fires THEN 1 ELSE 0,
                 !.completions =
                     IF ~loaderActive /\ loaderProgress >= COMPLETE THEN 1 ELSE 0,
                 !.loadedAt = IF ld THEN <<clock>> ELSE <<>>]
    /\ permissionState' = MountPermissionState(isIOSPermissionAPI, storage)
    /\ effectListener' = MountStartsListening(isIOSPermissionAPI, storage)
    /\ UNCHANGED <<platformVars, loaderVars, flipped, rotated, introReady,
                   frameVars, orientation, storage, requestListeners,
                   leakedListeners, pending, orphaned, shareVars, requests>>

\* Click on "Enable motion" (rendered when loaded && showMotionButton):
\* requestPermission() starts and awaits the platform call.
PressEnableMotion ==
    /\ EnableMotionButtonShown
    /\ requests < MaxRequests
    /\ requests' = requests + 1
    /\ pending' = IF isIOSPermissionAPI THEN pending + 1 ELSE pending
    /\ hist' = [hist EXCEPT !.requestCalls = @ + 1]
    /\ UNCHANGED <<platformVars, loaderVars, doneRef, mounted, progress, loaded,
                   flipped, rotated, introReady, introTimer, frameVars,
                   orientation, permissionState, storage, effectListener,
                   requestListeners, leakedListeners, orphaned, shareVars, mounts>>

\* The platform call of a requestPermission of the mounted instance settles.
PermissionResolve(result) ==
    /\ mounted
    /\ pending > 0
    /\ pending' = pending - 1
    /\ permissionState' = PermissionAfter(result)
    /\ storage' = StoredAfter(result)
    /\ requestListeners' = requestListeners + ListenersAdded(result)
    /\ hist' = [hist EXCEPT
           !.lastResult = result, !.lastInSession = TRUE,
           !.settledHere = TRUE,
           !.grantedHere = @ \/ result = "granted",
           !.failedHere = @ \/ result # "granted",
           !.lastReturn = ReturnAfter(result),
           !.lastAdded = ListenersAdded(result)]
    /\ UNCHANGED <<platformVars, loaderVars, doneRef, mounted, progress, loaded,
                   flipped, rotated, introReady, introTimer, frameVars,
                   orientation, effectListener, leakedListeners, orphaned,
                   shareVars, mounts, requests>>

\* The platform call of a requestPermission whose component has unmounted
\* settles: its state setters do nothing, storage and window are written.
OrphanResolve(result) ==
    /\ orphaned > 0
    /\ orphaned' = orphaned - 1
    /\ storage' = StoredAfter(result)
    /\ leakedListeners' = leakedListeners + ListenersAdded(result)
    /\ hist' = [hist EXCEPT !.lastResult = result, !.lastInSession = FALSE]
    /\ UNCHANGED <<platformVars, loaderVars, doneRef, mounted, progress, loaded,
                   flipped, rotated, introReady, introTimer, frameVars,
                   orientation, permissionState, effectListener,
                   requestListeners, pending, shareVars, mounts, requests>>

\* A deviceorientation event reaches a listener of the mounted instance.
OnDeviceOrientation(b, g) ==
    /\ mounted
    /\ isSupported
    /\ effectListener \/ requestListeners > 0
    /\ orientation' = [beta |-> b, gamma |-> g]
    /\ UNCHANGED <<platformVars, loaderVars, doneRef, mounted, progress, loaded,
                   flipped, rotated, introReady, introTimer, frameVars,
                   permissionState, storage, effectListener, requestListeners,
                   leakedListeners, pending, orphaned, shareVars, mounts,
                   requests, hist>>

\* The orientation reader on every platform.
InitMotion == \E ios \in BOOLEAN, supported \in BOOLEAN : HeroInit(ios, supported)

NextMotion ==
    \/ \E p \in ProgressValues, a \in BOOLEAN : LoaderUpdate(p, a)
    \/ Unmount
    \/ Mount
    \/ PressEnableMotion
    \/ \E result \in PermissionResults : PermissionResolve(result)
    \/ \E result \in PermissionResults : OrphanResolve(result)
    \/ \E b \in Readings, g \in Readings : OnDeviceOrientation(b, g)

SpecMotion == InitMotion /\ [][NextMotion]_vars

----------------------------------------------------------------------------
\* C1: within one mount, onLoaded has been invoked exactly once as soon as
\* some loader update had active = false and progress >= 100, and not at all
\* before; further updates never invoke it again.
C1_OnLoadedExactlyOnce ==
    hist.onLoadedCalls = (IF hist.completions >= 1 THEN 1 ELSE 0)

C1_Witness == hist.completions = 2 /\ hist.onLoadedCalls = 1 /\ doneRef

\* C4: once the frame loop has seen progress >= 100, introProgress is within
\* [0,1], does not decrease from one frame to the next, and is 1 only on
\* frames at least ANIMATION_DURATION after the trigger.
C4_IntroProgressMonotoneToOne ==
    hist.triggered =>
        /\ introProgress \in 0..ONE
        /\ introProgress >= hist.prevIntroProgress
        /\ (introProgress = ONE => clock - hist.triggerTime >= ANIMATION_DURATION)

\* C5: loading -> loaded -> intro-ready: loaded only after a completing
\* loader update, introReady only while loaded and only by expiry of the
\* 220 ms timeout started when loaded became true.
C5_IntroSequencing ==
    /\ (loaded => hist.completions >= 1 /\ hist.loadedAt # <<>>)
    /\ (introTimer # <<>> =>
            /\ loaded /\ ~introReady
            /\ introTimer[1] = hist.loadedAt[1] + INTRO_DELAY)
    /\ (introReady =>
            /\ loaded
            /\ hist.readyAt # <<>>
            /\ hist.readyAt[1] >= hist.loadedAt[1] + INTRO_DELAY)

C5_Witness ==
    /\ introReady /\ loaded
    /\ hist.loadedAt # <<>> /\ hist.loadedAt[1] > 0
    /\ hist.readyAt[1] > hist.loadedAt[1] + INTRO_DELAY

\* C6 as claimed: the load percentage stays within 0..100 and never
\* decreases, and loaded / introReady never revert to false.
C6_ProgressAndFlagsMonotone ==
    /\ progress \in 0..COMPLETE
    /\ progress >= hist.prevProgress
    /\ (hist.loadedAt # <<>> => loaded)
    /\ (hist.readyAt # <<>> => introReady)

\* C6 amended: loaded and introReady never revert to false once true; the load
\* percentage is the loader's latest report (within 0..100), whichever way
\* the loader's reports move.
C6_FlagsLatchProgressMirrors ==
    /\ progress = loaderProgress
    /\ progress \in 0..COMPLETE
    /\ (hist.loadedAt # <<>> => loaded)
    /\ (hist.readyAt # <<>> => introReady)

C6_Witness == loaded /\ introReady /\ progress < hist.prevProgress

\* C7: two consecutive toggles restore the rotation target, one toggle
\* switches it between 0 and pi (card tap: flipTarget; Flip button:
\* rotateTarget).
TrailAlternates(t) ==
    \A i \in 1..Len(t) :
        /\ t[i] \in {0, PI}
        /\ (i + 1 <= Len(t) => t[i + 1] # t[i])
        /\ (i + 2 <= Len(t) => t[i + 2] = t[i])

C7_DoubleToggleIdentity ==
    /\ TrailAlternates(hist.flipTrail)
    /\ TrailAlternates(hist.rotateTrail)
    /\ hist.flipTrail[Len(hist.flipTrail)] = FlipTarget(flipped)
    /\ hist.rotateTrail[Len(hist.rotateTrail)] = RotateTarget(rotated)

C7_Witness ==
    /\ Len(hist.flipTrail) = 3 /\ flipped
    /\ Len(hist.rotateTrail) = 3 /\ ~rotated

\* C9: a tap changes flipped only when loaded; while loaded is false any
\* number of taps leave flipped false.
C9_TapOnlyWhenInteractive ==
    /\ (~loaded => ~flipped)
    /\ (Len(hist.flipTrail) > 1 => loaded)

C9_Witness == ~loaded /\ hist.ignoredTaps /\ ~flipped

\* C3: for every combination of capability flags one invocation attempts
\* exactly one delivery method: the contact file when share and canShare exist
\* and canShare({files}) is true, else text when share exists, else the
\* download of contact.vcf.
C3_ShareSelectionOrder ==
    shareCaps # <<>> =>
        /\ Len(shareAttempts) = 1
        /\ (shareAttempts[1] = "share_files")
               <=> (shareCaps[1] /\ shareCaps[2] /\ shareCaps[3])
        /\ (shareAttempts[1] = "share_text")
               <=> (shareCaps[1] /\ ~(shareCaps[2] /\ shareCaps[3]))
        /\ (shareAttempts[1] = "download:contact.vcf") <=> ~shareCaps[1]

C3_Witness ==
    /\ shareCaps = <<TRUE, TRUE, FALSE>>
    /\ shareAttempts = <<"share_text">>
    /\ shareLogged

\* C2: on a consent platform, a session that follows one whose
\* requestPermission ended with denied (so 'denied' is stored) never shows the
\* "Enable motion" button and never calls requestPermission; it shows the
\* denied-state notice.
C2_DeniedNotReprompted ==
    (/\ mounted /\ isIOSPermissionAPI
     /\ hist.priorSession = "denied" /\ hist.storedAtMount = "denied") =>
        /\ ~EnableMotionButtonShown
        /\ hist.requestCalls = 0
        /\ (loaded => DeniedNoticeShown)

\* C8: both components of deviceTilt stay within [-pi/14, pi/14] for every
\* reading (null and beyond +/-35 degrees included); where the memo normalizes
\* the reading, a bound is reached exactly when the reading is at or beyond
\* +/-35 degrees.
TILT_BOUND == PI \div PI_DIVISOR

AtBoundIffBeyond(t, deg) ==
    /\ (t = TILT_BOUND <=> deg >= TILT_LIMIT)
    /\ (t = -TILT_BOUND <=> deg <= -TILT_LIMIT)

C8_DeviceTiltBounded ==
    /\ DeviceTilt.x \in (-TILT_BOUND)..TILT_BOUND
    /\ DeviceTilt.y \in (-TILT_BOUND)..TILT_BOUND
    /\ TiltEnabled =>
           /\ AtBoundIffBeyond(DeviceTilt.x, Nullish(orientation.beta, 0))
           /\ AtBoundIffBeyond(DeviceTilt.y, Nullish(orientation.gamma, 0))

C8_Witness ==
    /\ TiltEnabled
    /\ orientation = [beta |-> <<-90>>, gamma |-> <<36>>]
    /\ DeviceTilt = [x |-> -TILT_BOUND, y |-> TILT_BOUND]

\* C10: on a consent platform a granted result is stored as 'granted', and
\* a session that starts with 'granted' stored has permissionState granted
\* without any requestPermission call, shows no "Enable motion" button and
\* has an orientation listener registered.
C10_CachedGrantSkipsConsent ==
    /\ (hist.lastResult = "granted" => storage = "granted")
    /\ (mounted /\ isIOSPermissionAPI /\ hist.storedAtMount = "granted") =>
           /\ permissionState = "granted"
           /\ hist.requestCalls = 0
           /\ ~ShowMotionButton
           /\ effectListener

C10_Witness ==
    /\ mounted /\ mounts = 2 /\ loaded
    /\ isIOSPermissionAPI /\ isSupported
    /\ hist.storedAtMount = "granted" /\ hist.priorSession = "granted"
    /\ permissionState = "granted" /\ effectListener

\* C11: after the component has unmounted none of the listeners it registered
\* is left on window, whichever way the listener was registered.
C11_NoListenerAfterUnmount ==
    /\ leakedListeners = 0
    /\ (~mounted => ~effectListener /\ requestListeners = 0)

\* C12 as claimed: on a consent platform permissionState is unknown until a
\* request has settled and no listener is registered before a user-triggered
\* requestPermission resolved granted; elsewhere permissionState is
\* not_required and the mount effect listens.
C12_ListeningOnlyAfterGesture ==
    mounted =>
        /\ (~isIOSPermissionAPI =>
                permissionState = "not_required" /\ effectListener)
        /\ (isIOSPermissionAPI =>
                /\ (~hist.settledHere => permissionState = "unknown")
                /\ (effectListener \/ requestListeners > 0) =>
                       hist.grantedHere /\ hist.requestCalls >= 1)

\* C12 amended: the above holds on a consent platform for a mount that does
\* not find 'granted' stored; a mount that finds 'granted' stored begins
\* granted and listens from mount on, without a gesture.
C12_ListeningAfterConsentOrCachedGrant ==
    mounted =>
        /\ (~isIOSPermissionAPI =>
                permissionState = "not_required" /\ effectListener)
        /\ (isIOSPermissionAPI /\ hist.storedAtMount # "granted" =>
                /\ (~hist.settledHere => permissionState = "unknown")
                /\ ~effectListener
                /\ requestListeners > 0 =>
                       hist.grantedHere /\ hist.requestCalls >= 1)
        /\ (isIOSPermissionAPI /\ hist.storedAtMount = "granted" =>
                permissionState = "granted" /\ effectListener)

C12_Witness ==
    /\ mounted /\ isIOSPermissionAPI /\ hist.storedAtMount # "granted"
    /\ hist.grantedHere /\ hist.requestCalls = 1
    /\ requestListeners = 1 /\ ~effectListener
    /\ permissionState = "granted"

\* C13: a failed share attempt never propagates out of handleShareVCard; a
\* cancellation (AbortError) is not logged, every other failure is logged.
C13_ShareFailureClassified ==
    shareCaps # <<>> =>
        /\ ~shareThrown
        /\ shareLogged <=> shareOutcome \notin {"resolved", "AbortError"}

\* C14: once a requestPermission of the mounted instance has ended denied or
\* rejected, the call returned false, registered no listener and left
\* permissionState denied, and from then on deviceTilt is {0,0} whatever the
\* orientation holds, so both tilt axes come from the pointer.
C14_FailureDegradesToPointer ==
    /\ (mounted /\ hist.settledHere /\ hist.lastResult # "granted") =>
           /\ ~hist.lastReturn
           /\ hist.lastAdded = 0
           /\ permissionState = "denied"
    /\ (mounted /\ isIOSPermissionAPI /\ hist.failedHere) =>
           /\ DeviceTilt = [x |-> 0, y |-> 0]
           /\ CardTiltSource(DeviceTilt.x) = "pointer"
           /\ CardTiltSource(DeviceTilt.y) = "pointer"

\* C15: at most one deviceorientation listener registered by
\* useDeviceOrientation is on window at any moment.
C15_AtMostOneListener == ListenersOnWindow <= 1

====
